---- MODULE Spec2Model ----
(***************************************************************************)
(* Model of the in-memory vector store of codecli (package vector):        *)
(* VectorStore with CreateIndex / processFile / splitIntoChunks,           *)
(* saveIndex / LoadIndex and Search / cosineSimilarity.                    *)
(*                                                                         *)
(* A Go string is a sequence of one-character strings.  NL is the line     *)
(* feed, BAD a byte that is not valid UTF-8, RC the replacement character  *)
(* U+FFFD that encoding/json writes in its place.                          *)
(***************************************************************************)
EXTENDS Integers, Sequences, FiniteSets, TLC

VARIABLES
  metadata,     \* v.metadata : map[uint32]*FileMetadata (its entries)
  vectors,      \* v.vectors  : map[uint32]*ChunkVector  (its entries)
  metadataNil,  \* v.metadata is the nil map
  vectorsNil,   \* v.vectors is the nil map
  nextID,       \* v.nextID
  disk,         \* the file metadata.json under the index path
  ipc,          \* position of the CreateIndex call
  queue,        \* files of the run that are not yet processed
  cur,          \* locals of the processFile call in progress
  spc,          \* position of the Search call
  squery,       \* queryEmbedding of the Search call
  slimit,       \* limit argument of the Search call, once it is used
  scores,       \* the sorted scores slice of the Search call
  results,      \* searchResults returned by the Search call
  lerr,         \* outcome of the last LoadIndex call
  lastOp,       \* the operation that took the last step
  diskAtStart,  \* the file metadata.json when the running CreateIndex began
  runDocs,      \* keys of the documents published by the running CreateIndex
  runErr,       \* the running CreateIndex has met a read or embedding error
  fileCount,    \* number of files handed to CreateIndex runs so far
  everLoaded,   \* a LoadIndex call has replaced the store's maps
  lock,         \* v.mutex: w is the caller holding Lock, r the callers holding RLock
  lpc,          \* position of the LoadIndex call
  ldata         \* metadataBytes of the LoadIndex call in progress

vars == <<metadata, vectors, metadataNil, vectorsNil, nextID, disk, ipc, queue,
          cur, spc, squery, slimit, scores, results, lerr, lastOp,
          diskAtStart, runDocs, runErr, fileCount, everLoaded, lock, lpc, ldata>>

storeVars == <<metadata, vectors, metadataNil, vectorsNil, nextID>>
ingestVars == <<ipc, queue, cur, diskAtStart, runDocs, runErr>>
searchVars == <<spc, squery, slimit, scores, results>>
loadVars == <<lpc, ldata, lerr>>

-----------------------------------------------------------------------------
(* Bounds of the model *)

\* number of files all CreateIndex runs together walk at most
MaxIngest == 2
\* number of files one CreateIndex run walks at most
MaxFiles == 2
\* number of files the CreateIndex runs walk at most when callers run concurrently
MaxIngestConc == 1
\* number of lines of the longest content splitIntoChunks is applied to alone
MaxLines == 121
\* dimension and largest coordinate of the vectors cosineSimilarity is applied to alone
MaxDim == 2
MaxCoord == 2

-----------------------------------------------------------------------------
(* Program constants *)

maxLinesPerChunk == 50
\* an overlap that leaves five lines between two windows out
overlapLinesGap == 0 - 5
overlapLines == 5
\* x + 1 on uint32: the IDs of the model stay far below 2^32, where it wraps
Uint32Inc(x) == x + 1

NL == "\n"
BAD == "\\x80"
RC == "\\ufffd"

-----------------------------------------------------------------------------
(* strings *)

Min(a, b) == IF a < b THEN a ELSE b

IsSpace(c) == c \in {" ", NL}

\* a TrimSpace that removes nothing
TrimSpaceKeeping(s) == s

\* strings.TrimSpace
TrimSpace(s) ==
  LET keep == {i \in 1..Len(s) : ~IsSpace(s[i])}
  IN IF keep = {} THEN <<>>
     ELSE LET lo == CHOOSE i \in keep : \A j \in keep : i <= j
              hi == CHOOSE i \in keep : \A j \in keep : j <= i
          IN SubSeq(s, lo, hi)

\* strings.Split(content, "\n"): the pieces between the line feeds
Split(s) ==
  LET nl == {i \in 1..Len(s) : s[i] = NL}
      n == Cardinality(nl) + 1
      rank == [i \in nl |-> Cardinality({j \in nl : j <= i})]
      pos == [k \in 1..(n - 1) |-> CHOOSE i \in nl : rank[i] = k]
      first(k) == IF k = 1 THEN 1 ELSE pos[k - 1] + 1
      last(k) == IF k = n THEN Len(s) ELSE pos[k] - 1
  IN [k \in 1..n |-> SubSeq(s, first(k), last(k))]

\* strings.Join(lines, "\n")
RECURSIVE Join(_)
Join(ls) ==
  IF Len(ls) = 0 THEN <<>>
  ELSE IF Len(ls) = 1 THEN ls[1]
  ELSE LET h == Len(ls) \div 2
       IN Join(SubSeq(ls, 1, h)) \o <<NL>> \o Join(SubSeq(ls, h + 1, Len(ls)))

-----------------------------------------------------------------------------
(* splitIntoChunks *)

\* the loop of splitIntoChunks from 0-based index i on
RECURSIVE ChunkLoop(_, _)
ChunkLoop(lines, i) ==
  IF i >= Len(lines) THEN <<>>
  ELSE
    LET endIdx == Min(i + maxLinesPerChunk, Len(lines))
        chunkContent == Join(SubSeq(lines, i + 1, endIdx))
        emitted == IF TrimSpace(chunkContent) # <<>>
                   THEN << [ID |-> 0, StartLine |-> i + 1, EndLine |-> endIdx,
                             Content |-> chunkContent] >>
                   ELSE <<>>
    IN IF endIdx >= Len(lines) THEN emitted
       ELSE emitted \o ChunkLoop(lines, i + (maxLinesPerChunk - overlapLines))

splitIntoChunks(content) == ChunkLoop(Split(content), 0)

-----------------------------------------------------------------------------
(* cosineSimilarity *)

RECURSIVE SumTo(_, _, _)
SumTo(a, b, n) == IF n = 0 THEN 0 ELSE SumTo(a, b, n - 1) + a[n] * b[n]

\* math.Sqrt on the perfect squares the model's vectors produce
Sqrt(n) == CHOOSE r \in 0..n : r * r = n

\* a cosineSimilarity that compares vectors of different lengths over the
\* shorter one
cosineSimilarityPadding(a, b) ==
  LET n == Min(Len(a), Len(b))
      dotProduct == SumTo(a, b, n)
      normA == SumTo(a, a, Len(a))
      normB == SumTo(b, b, Len(b))
  IN IF normA = 0 \/ normB = 0 THEN 0
     ELSE dotProduct \div (Sqrt(normA) * Sqrt(normB))

cosineSimilarity(a, b) ==
  IF Len(a) # Len(b) THEN 0
  ELSE LET dotProduct == SumTo(a, b, Len(a))
           normA == SumTo(a, a, Len(a))
           normB == SumTo(b, b, Len(b))
       IN IF normA = 0 \/ normB = 0 THEN 0
          ELSE dotProduct \div (Sqrt(normA) * Sqrt(normB))

-----------------------------------------------------------------------------
(* Inputs: the workspace, the embedding service, the queries *)

Paths == {"a.go", "b.go"}

\* the file lists filepath.Walk can deliver: distinct paths in lexical order
FileLists ==
  {<<>>, <<"a.go">>} \cup (IF MaxFiles >= 2 THEN {<<"a.go", "b.go">>} ELSE {})

\* n lines "x" separated by line feeds
Text(n) == [i \in 1..(2 * n - 1) |-> IF i % 2 = 1 THEN "x" ELSE NL]

\* file contents ioutil.ReadFile can deliver
FileContents == { <<>>, <<"x", BAD>>, <<" ", NL>>, Text(maxLinesPerChunk + 1) }

\* splitIntoChunks of every file content, computed once
ChunksOf == [content \in FileContents |-> splitIntoChunks(content)]

\* vectors EmbedText can deliver for a chunk
EmbedVecs == { <<1, 0>>, <<0, 1>> }

\* vectors EmbedText can deliver for a query
QueryVecs == { <<1, 0>>, <<0, 0>>, <<2>> }

\* limit arguments of Search
Limits == { -1, 0, 1, 2, 5, 10 }

\* L lines, blank from line lo to line hi and "x" elsewhere, joined by line
\* feeds and ended by one when nl holds
LinesText(L, lo, hi, nl) ==
  Join([n \in 1..L |-> IF lo <= n /\ n <= hi THEN <<" ">> ELSE <<"x">>])
    \o (IF nl THEN <<NL>> ELSE <<>>)

\* line counts around the window size and the window starts
ChunkerLineCounts ==
  {L \in 1..MaxLines : L \in {1, 2, 10} \/ (L >= 45 /\ L % 5 \in {0, 1})}

\* the contents splitIntoChunks is applied to alone: no blank line, a blank
\* first window, blank lines from 46 or from 51 on, only blank lines
ChunkerContents ==
  {<<>>} \cup
  UNION {{LinesText(L, b[1], b[2], nl) :
            b \in {<<0, 0>>, <<1, 50>>, <<46, L>>, <<51, L>>, <<1, L>>},
            nl \in BOOLEAN} : L \in ChunkerLineCounts}

\* the inputs of callers that share the store between goroutines
FileContentsConc == { Text(maxLinesPerChunk + 1) }
EmbedVecsConc == { <<1, 0>> }
QueryVecsConc == { <<1, 0>> }
LimitsConc == { -1, 1 }

-----------------------------------------------------------------------------
(* encoding/json *)

\* a string as json.Marshal writes it: invalid UTF-8 becomes U+FFFD
MarshalString(s) == [i \in 1..Len(s) |-> IF s[i] = BAD THEN RC ELSE s[i]]

MarshalChunk(c) == [c EXCEPT !.Content = MarshalString(@)]

MarshalFile(f) ==
  [f EXCEPT !.Content = MarshalString(@),
            !.Chunks = [i \in 1..Len(@) |-> MarshalChunk(@[i])]]

NoFile == [kind |-> "none", metadataNull |-> TRUE, metadata |-> <<>>,
           vectorsNull |-> TRUE, vectors |-> <<>>]

CorruptFile == [NoFile EXCEPT !.kind = "corrupt"]

\* the record {"metadata": ..., "vectors": ...} of saveIndex
Marshal(md, mdNil, vec, vecNil) ==
  [kind |-> "json",
   metadataNull |-> mdNil,
   metadata |-> [k \in DOMAIN md |-> MarshalFile(md[k])],
   vectorsNull |-> vecNil,
   vectors |-> [k \in DOMAIN vec |-> MarshalChunk(vec[k])]]

\* json.Unmarshal accepts the bytes
Decodable(bytes) == bytes.kind = "json"

\* a JSON string as json.Unmarshal reads it
UnmarshalString(s) == [i \in 1..Len(s) |-> IF s[i] = BAD THEN RC ELSE s[i]]

UnmarshalChunk(c) == [c EXCEPT !.Content = UnmarshalString(@)]

UnmarshalFile(f) ==
  [f EXCEPT !.Content = UnmarshalString(@),
            !.Chunks = [i \in 1..Len(@) |-> UnmarshalChunk(@[i])]]

\* the value json.Unmarshal leaves in data
Unmarshal(bytes) ==
  [Metadata |-> [k \in DOMAIN bytes.metadata |-> UnmarshalFile(bytes.metadata[k])],
   MetadataNil |-> bytes.metadataNull,
   Vectors |-> [k \in DOMAIN bytes.vectors |-> UnmarshalChunk(bytes.vectors[k])],
   VectorsNil |-> bytes.vectorsNull]

\* a record of the persisted format whose chunk lists carry the chunk IDs
SeedRecord ==
  LET c(id) == [ID |-> id, StartLine |-> 1, EndLine |-> 1, Content |-> <<"x">>]
      d(id, path, cid) == [ID |-> id, FilePath |-> path, Content |-> <<"x">>,
                           Chunks |-> << c(cid) >>]
      cv(id, v) == [ID |-> id, StartLine |-> 1, EndLine |-> 1,
                    Content |-> <<"x">>, Vector |-> v]
  IN [kind |-> "json",
      metadataNull |-> FALSE,
      metadata |-> (1 :> d(1, "a.go", 2)) @@ (3 :> d(3, "b.go", 4)),
      vectorsNull |-> FALSE,
      vectors |-> (2 :> cv(2, <<1, 0>>)) @@ (4 :> cv(4, <<0, 1>>))]

\* the JSON value null, and any object without the two fields
NullRecord == [NoFile EXCEPT !.kind = "json"]

\* what metadata.json can hold before the program first runs
InitialDisks == { NoFile, NullRecord, SeedRecord }

-----------------------------------------------------------------------------
(* The store *)

NoCur == [file |-> "", content |-> <<>>, chunks |-> <<>>, fileID |-> 0,
          Chunks |-> <<>>, embedding |-> <<>>, bytes |-> NoFile]

\* the zero value of sync.RWMutex
Unlocked == [w |-> "none", r |-> {}]

\* NewVectorStore
Init ==
  /\ metadata = <<>>
  /\ vectors = <<>>
  /\ metadataNil = FALSE
  /\ vectorsNil = FALSE
  /\ nextID = 1
  /\ disk \in InitialDisks
  /\ ipc = "idle"
  /\ queue = <<>>
  /\ cur = NoCur
  /\ spc = "idle"
  /\ squery = <<>>
  /\ slimit = 0
  /\ scores = <<>>
  /\ results = <<>>
  /\ lerr = "none"
  /\ lastOp = "NewVectorStore"
  /\ diskAtStart = disk
  /\ runDocs = {}
  /\ runErr = FALSE
  /\ fileCount = 0
  /\ everLoaded = FALSE
  /\ lock = Unlocked
  /\ lpc = "idle"
  /\ ldata = NoFile

\* the locals of a call that has returned are gone when the next call begins
IngestIdle ==
  /\ ipc' = "idle"
  /\ queue' = <<>>
  /\ cur' = NoCur
  /\ diskAtStart' = disk
  /\ runDocs' = {}
  /\ runErr' = FALSE

SearchIdle ==
  /\ spc' = "idle"
  /\ squery' = <<>>
  /\ slimit' = 0
  /\ scores' = <<>>
  /\ results' = <<>>

LoadIdle ==
  /\ lpc' = "idle"
  /\ ldata' = NoFile
  /\ lerr' = "none"

\* no call of the kind is in progress on the store
IngestQuiet == ipc \in {"idle", "done", "failed"}
SearchQuiet == spc \in {"idle", "done", "failed"}
LoadQuiet == lpc = "idle"
Quiet == IngestQuiet /\ SearchQuiet /\ LoadQuiet

\* a panic has ended the process
Crashed == ipc = "panic" \/ spc = "panic"

\* a call of a kind can begin: after every other call has returned when the
\* calls are made one after another, after the last call of its kind has
\* returned when callers share the store between goroutines
CanBegin(conc, ownQuiet) == ~Crashed /\ ownQuiet /\ (conc \/ Quiet)

\* what a beginning call leaves of the calls of another kind
ResetIngest == IF IngestQuiet THEN IngestIdle ELSE UNCHANGED ingestVars
ResetSearch == IF SearchQuiet THEN SearchIdle ELSE UNCHANGED searchVars
ResetLoad == IF LoadQuiet THEN LoadIdle ELSE UNCHANGED loadVars

\* v.mutex.Lock() and v.mutex.RLock() return
CanLock == ~Crashed /\ lock.w = "none" /\ lock.r = {}
CanRLock == ~Crashed /\ lock.w = "none"

\* m[k] = v
MapSet(m, k, v) == [x \in (DOMAIN m) \cup {k} |-> IF x = k THEN v ELSE m[x]]

-----------------------------------------------------------------------------
(* CreateIndex and processFile *)

\* CreateIndex: findCodeFiles delivers the file list
CreateIndexStart(conc) ==
  /\ CanBegin(conc, IngestQuiet)
  /\ \E fl \in FileLists :
       /\ fileCount + Len(fl) <= (IF conc THEN MaxIngestConc ELSE MaxIngest)
       /\ queue' = fl
       /\ fileCount' = fileCount + Len(fl)
  /\ ipc' = "files"
  /\ cur' = NoCur
  /\ diskAtStart' = disk
  /\ runDocs' = {}
  /\ runErr' = FALSE
  /\ ResetSearch
  /\ ResetLoad
  /\ lastOp' = "CreateIndex"
  /\ UNCHANGED <<storeVars, disk, everLoaded, lock>>

\* CreateIndex: findCodeFiles fails
CreateIndexWalkFail(conc) ==
  /\ CanBegin(conc, IngestQuiet)
  /\ queue' = <<>>
  /\ fileCount' = fileCount
  /\ ipc' = "failed"
  /\ cur' = NoCur
  /\ diskAtStart' = disk
  /\ runDocs' = {}
  /\ runErr' = FALSE
  /\ ResetSearch
  /\ ResetLoad
  /\ lastOp' = "CreateIndex"
  /\ UNCHANGED <<storeVars, disk, everLoaded, lock>>

\* processFile: ioutil.ReadFile fails; CreateIndex returns the error
ProcessFileReadFail ==
  /\ ipc = "files"
  /\ queue # <<>>
  /\ ipc' = "failed"
  /\ runErr' = TRUE
  /\ lastOp' = "CreateIndex"
  /\ UNCHANGED <<storeVars, disk, queue, cur, searchVars, loadVars, diskAtStart,
                 runDocs, fileCount, everLoaded, lock>>

\* a processFile that goes on with a file that has no chunks
ProcessFileReadKeeping(conc) ==
  /\ ipc = "files"
  /\ queue # <<>>
  /\ \E content \in (IF conc THEN FileContentsConc ELSE FileContents) :
       /\ ipc' = "allocFile"
       /\ cur' = [NoCur EXCEPT !.file = Head(queue),
                               !.content = content,
                               !.chunks = ChunksOf[content]]
  /\ queue' = Tail(queue)
  /\ lastOp' = "CreateIndex"
  /\ UNCHANGED <<storeVars, disk, searchVars, loadVars, diskAtStart, runDocs,
                 runErr, fileCount, everLoaded, lock>>

\* processFile: read and split; a file without chunks is skipped
ProcessFileRead(conc) ==
  /\ ipc = "files"
  /\ queue # <<>>
  /\ \E content \in (IF conc THEN FileContentsConc ELSE FileContents) :
       LET chunks == ChunksOf[content]
       IN IF Len(chunks) = 0
          THEN /\ ipc' = "files"
               /\ cur' = NoCur
          ELSE /\ ipc' = "allocFile"
               /\ cur' = [NoCur EXCEPT !.file = Head(queue),
                                       !.content = content,
                                       !.chunks = chunks]
  /\ queue' = Tail(queue)
  /\ lastOp' = "CreateIndex"
  /\ UNCHANGED <<storeVars, disk, searchVars, loadVars, diskAtStart, runDocs,
                 runErr, fileCount, everLoaded, lock>>

\* processFile: v.mutex.Lock() before the file ID is taken
ProcessFileAllocLock ==
  /\ ipc = "allocFile"
  /\ CanLock
  /\ lock' = [lock EXCEPT !.w = "ingest"]
  /\ ipc' = "allocLocked"
  /\ lastOp' = "CreateIndex"
  /\ UNCHANGED <<storeVars, disk, queue, cur, searchVars, loadVars, diskAtStart,
                 runDocs, runErr, fileCount, everLoaded>>

\* a processFile that puts the document into the documents map when it takes
\* the file ID, before any chunk is embedded
ProcessFileAllocIDPublishing ==
  /\ ipc = "allocLocked"
  /\ cur' = [cur EXCEPT !.fileID = nextID]
  /\ nextID' = Uint32Inc(nextID)
  /\ metadata' = MapSet(metadata, nextID,
                        [ID |-> nextID, FilePath |-> cur.file,
                         Content |-> cur.content, Chunks |-> <<>>])
  /\ lock' = [lock EXCEPT !.w = "none"]
  /\ ipc' = "chunks"
  /\ lastOp' = "CreateIndex"
  /\ UNCHANGED <<vectors, metadataNil, vectorsNil, disk, queue,
                 searchVars, loadVars, diskAtStart, runDocs, runErr, fileCount,
                 everLoaded>>

\* processFile: fileID := v.nextID; v.nextID++; v.mutex.Unlock()
ProcessFileAllocID ==
  /\ ipc = "allocLocked"
  /\ cur' = [cur EXCEPT !.fileID = nextID]
  /\ nextID' = Uint32Inc(nextID)
  /\ lock' = [lock EXCEPT !.w = "none"]
  /\ ipc' = "chunks"
  /\ lastOp' = "CreateIndex"
  /\ UNCHANGED <<metadata, vectors, metadataNil, vectorsNil, disk, queue,
                 searchVars, loadVars, diskAtStart, runDocs, runErr, fileCount,
                 everLoaded>>

\* a processFile that takes the write lock before it calls EmbedText
ProcessFileChunkLocking ==
  /\ ipc = "chunks"
  /\ cur.chunks # <<>>
  /\ lock.w = "none"
  /\ lock.r = {}
  /\ lock' = [lock EXCEPT !.w = "ingest"]
  /\ ipc' = "embedding"
  /\ lastOp' = "CreateIndex"
  /\ UNCHANGED <<storeVars, disk, queue, cur, searchVars, loadVars, diskAtStart,
                 runDocs, runErr, fileCount, everLoaded>>

\* processFile: the next chunk is skipped when blank, else EmbedText is called
ProcessFileChunk ==
  /\ ipc = "chunks"
  /\ cur.chunks # <<>>
  /\ IF TrimSpace(Head(cur.chunks).Content) = <<>>
     THEN /\ cur' = [cur EXCEPT !.chunks = Tail(@)]
          /\ ipc' = "chunks"
     ELSE /\ cur' = cur
          /\ ipc' = "embedding"
  /\ lastOp' = "CreateIndex"
  /\ UNCHANGED <<storeVars, disk, queue, searchVars, loadVars, diskAtStart,
                 runDocs, runErr, fileCount, everLoaded, lock>>

\* a processFile that skips the chunk whose embedding failed and goes on
ProcessFileEmbedFailSkipping ==
  /\ ipc = "embedding"
  /\ cur' = [cur EXCEPT !.chunks = Tail(@)]
  /\ ipc' = "chunks"
  /\ runErr' = TRUE
  /\ lastOp' = "CreateIndex"
  /\ UNCHANGED <<storeVars, disk, queue, searchVars, loadVars, diskAtStart,
                 runDocs, fileCount, everLoaded, lock>>

\* processFile: EmbedText fails for the chunk; CreateIndex returns the error
ProcessFileEmbedFail ==
  /\ ipc = "embedding"
  /\ ipc' = "failed"
  /\ runErr' = TRUE
  /\ lastOp' = "CreateIndex"
  /\ UNCHANGED <<storeVars, disk, queue, cur, searchVars, loadVars, diskAtStart,
                 runDocs, fileCount, everLoaded, lock>>

\* processFile: EmbedText returns the embedding of the chunk
ProcessFileEmbed(conc) ==
  /\ ipc = "embedding"
  /\ \E embedding \in (IF conc THEN EmbedVecsConc ELSE EmbedVecs) :
       cur' = [cur EXCEPT !.embedding = embedding]
  /\ ipc' = "insert"
  /\ lastOp' = "CreateIndex"
  /\ UNCHANGED <<storeVars, disk, queue, searchVars, loadVars, diskAtStart,
                 runDocs, runErr, fileCount, everLoaded, lock>>

\* processFile: v.mutex.Lock() before the chunk vector is stored
ProcessFileInsertLock ==
  /\ ipc = "insert"
  /\ CanLock
  /\ lock' = [lock EXCEPT !.w = "ingest"]
  /\ ipc' = "insertLocked"
  /\ lastOp' = "CreateIndex"
  /\ UNCHANGED <<storeVars, disk, queue, cur, searchVars, loadVars, diskAtStart,
                 runDocs, runErr, fileCount, everLoaded>>

\* processFile: the chunk vector is stored and the chunk appended to the
\* file's list; v.mutex.Unlock()
ProcessFileInsert ==
  /\ ipc = "insertLocked"
  /\ ~vectorsNil
  /\ LET chunk == Head(cur.chunks)
         chunkID == nextID
         chunkVec == [ID |-> chunkID, StartLine |-> chunk.StartLine,
                      EndLine |-> chunk.EndLine, Content |-> chunk.Content,
                      Vector |-> cur.embedding]
     IN /\ nextID' = Uint32Inc(nextID)
        /\ vectors' = MapSet(vectors, chunkID, chunkVec)
        /\ cur' = [cur EXCEPT !.Chunks = Append(@, chunk),
                              !.chunks = Tail(@),
                              !.embedding = <<>>]
  /\ lock' = [lock EXCEPT !.w = "none"]
  /\ ipc' = "chunks"
  /\ lastOp' = "CreateIndex"
  /\ UNCHANGED <<metadata, metadataNil, vectorsNil, disk, queue, searchVars,
                 loadVars, diskAtStart, runDocs, runErr, fileCount, everLoaded>>

\* processFile: v.vectors is nil, the assignment panics with the lock held
ProcessFileInsertPanic ==
  /\ ipc = "insertLocked"
  /\ vectorsNil
  /\ nextID' = Uint32Inc(nextID)
  /\ ipc' = "panic"
  /\ lastOp' = "CreateIndex"
  /\ UNCHANGED <<metadata, vectors, metadataNil, vectorsNil, disk, queue, cur,
                 searchVars, loadVars, diskAtStart, runDocs, runErr, fileCount,
                 everLoaded, lock>>

\* processFile: v.mutex.Lock() before the document is added
ProcessFilePublishLock ==
  /\ ipc = "chunks"
  /\ cur.chunks = <<>>
  /\ CanLock
  /\ lock' = [lock EXCEPT !.w = "ingest"]
  /\ ipc' = "publishLocked"
  /\ lastOp' = "CreateIndex"
  /\ UNCHANGED <<storeVars, disk, queue, cur, searchVars, loadVars, diskAtStart,
                 runDocs, runErr, fileCount, everLoaded>>

\* processFile: v.metadata[fileID] = fileMeta; v.mutex.Unlock()
ProcessFilePublish ==
  /\ ipc = "publishLocked"
  /\ ~metadataNil
  /\ metadata' = MapSet(metadata, cur.fileID,
                        [ID |-> cur.fileID, FilePath |-> cur.file,
                         Content |-> cur.content, Chunks |-> cur.Chunks])
  /\ runDocs' = runDocs \cup {cur.fileID}
  /\ cur' = NoCur
  /\ lock' = [lock EXCEPT !.w = "none"]
  /\ ipc' = "files"
  /\ lastOp' = "CreateIndex"
  /\ UNCHANGED <<vectors, metadataNil, vectorsNil, nextID, disk, queue,
                 searchVars, loadVars, diskAtStart, runErr, fileCount, everLoaded>>

\* saveIndex: v.mutex.RLock()
SaveIndexRLock ==
  /\ ipc = "files"
  /\ queue = <<>>
  /\ CanRLock
  /\ lock' = [lock EXCEPT !.r = @ \cup {"ingest"}]
  /\ ipc' = "saveLocked"
  /\ lastOp' = "CreateIndex"
  /\ UNCHANGED <<storeVars, disk, queue, cur, searchVars, loadVars, diskAtStart,
                 runDocs, runErr, fileCount, everLoaded>>

\* saveIndex: the maps are marshalled; v.mutex.RUnlock()
SaveIndexMarshal ==
  /\ ipc = "saveLocked"
  /\ cur' = [NoCur EXCEPT !.bytes = Marshal(metadata, metadataNil, vectors, vectorsNil)]
  /\ lock' = [lock EXCEPT !.r = @ \ {"ingest"}]
  /\ ipc' = "write"
  /\ lastOp' = "CreateIndex"
  /\ UNCHANGED <<storeVars, disk, queue, searchVars, loadVars, diskAtStart,
                 runDocs, runErr, fileCount, everLoaded>>

\* saveIndex: ioutil.WriteFile writes metadata.json
SaveIndexWrite ==
  /\ ipc = "write"
  /\ disk' = cur.bytes
  /\ cur' = NoCur
  /\ ipc' = "done"
  /\ lastOp' = "CreateIndex"
  /\ UNCHANGED <<storeVars, queue, searchVars, loadVars, diskAtStart, runDocs,
                 runErr, fileCount, everLoaded, lock>>

\* saveIndex: ioutil.WriteFile fails, before or after truncating the file
SaveIndexWriteFail ==
  /\ ipc = "write"
  /\ disk' \in {disk, CorruptFile}
  /\ cur' = NoCur
  /\ ipc' = "failed"
  /\ lastOp' = "CreateIndex"
  /\ UNCHANGED <<storeVars, queue, searchVars, loadVars, diskAtStart, runDocs,
                 runErr, fileCount, everLoaded, lock>>

-----------------------------------------------------------------------------
(* LoadIndex *)

Max(S) == CHOOSE x \in S : \A y \in S : y <= x

\* the loop of LoadIndex that finds the highest ID
LoadMaxID(md) ==
  Max({0} \cup {md[k].ID : k \in DOMAIN md}
          \cup UNION {{md[k].Chunks[i].ID : i \in 1..Len(md[k].Chunks)} : k \in DOMAIN md})

\* a LoadIndex that installs fresh maps before it reads metadata.json
LoadIndexFailsClearing(err) ==
  /\ metadata' = <<>>
  /\ vectors' = <<>>
  /\ lerr' = err
  /\ lpc' = "idle"
  /\ ldata' = NoFile
  /\ ResetIngest
  /\ ResetSearch
  /\ lastOp' = "LoadIndex"
  /\ UNCHANGED <<metadataNil, vectorsNil, nextID, disk, fileCount, everLoaded, lock>>

\* what a LoadIndex call that fails before it locks leaves behind
LoadIndexFails(err) ==
  /\ lerr' = err
  /\ lpc' = "idle"
  /\ ldata' = NoFile
  /\ ResetIngest
  /\ ResetSearch
  /\ lastOp' = "LoadIndex"
  /\ UNCHANGED <<storeVars, disk, fileCount, everLoaded, lock>>

\* LoadIndex: os.Stat reports that metadata.json does not exist
LoadIndexNotFound(conc) ==
  /\ CanBegin(conc, LoadQuiet)
  /\ disk.kind = "none"
  /\ LoadIndexFails("notfound")

\* LoadIndex: ioutil.ReadFile fails
LoadIndexReadFail(conc) ==
  /\ CanBegin(conc, LoadQuiet)
  /\ disk.kind # "none"
  /\ LoadIndexFails("read")

\* LoadIndex: json.Unmarshal fails
LoadIndexFormat(conc) ==
  /\ CanBegin(conc, LoadQuiet)
  /\ disk.kind # "none"
  /\ ~Decodable(disk)
  /\ LoadIndexFails("format")

\* LoadIndex: metadata.json is read and json.Unmarshal accepts it
LoadIndexRead(conc) ==
  /\ CanBegin(conc, LoadQuiet)
  /\ disk.kind # "none"
  /\ Decodable(disk)
  /\ ldata' = disk
  /\ lpc' = "decoded"
  /\ lerr' = "pending"
  /\ ResetIngest
  /\ ResetSearch
  /\ lastOp' = "LoadIndex"
  /\ UNCHANGED <<storeVars, disk, fileCount, everLoaded, lock>>

\* LoadIndex: v.mutex.Lock()
LoadIndexLock ==
  /\ lpc = "decoded"
  /\ CanLock
  /\ lock' = [lock EXCEPT !.w = "load"]
  /\ lpc' = "locked"
  /\ lastOp' = "LoadIndex"
  /\ UNCHANGED <<storeVars, disk, ingestVars, searchVars, ldata, lerr,
                 fileCount, everLoaded>>

\* LoadIndex: the decoded maps replace the store's and nextID is recomputed;
\* v.mutex.Unlock()
LoadIndexOk ==
  /\ lpc = "locked"
  /\ LET data == Unmarshal(ldata)
     IN /\ metadata' = data.Metadata
        /\ metadataNil' = data.MetadataNil
        /\ vectors' = data.Vectors
        /\ vectorsNil' = data.VectorsNil
        /\ nextID' = Uint32Inc(LoadMaxID(data.Metadata))
  /\ lock' = [lock EXCEPT !.w = "none"]
  /\ lpc' = "idle"
  /\ ldata' = NoFile
  /\ lerr' = "none"
  /\ everLoaded' = TRUE
  /\ lastOp' = "LoadIndex"
  /\ UNCHANGED <<disk, ingestVars, searchVars, fileCount>>

-----------------------------------------------------------------------------
(* Search *)

\* all orders in which a set can be enumerated
RECURSIVE Perms(_)
Perms(S) ==
  IF S = {} THEN {<<>>}
  ELSE UNION {{<<x>> \o p : p \in Perms(S \ {x})} : x \in S}

\* the inner loop of Search over one file's chunk list
RECURSIVE ScanChunks(_, _, _, _, _)
ScanChunks(md, vec, q, k, i) ==
  IF i > Len(md[k].Chunks) THEN <<>>
  ELSE LET chunk == md[k].Chunks[i]
           rest == ScanChunks(md, vec, q, k, i + 1)
       IN IF chunk.ID \in DOMAIN vec
          THEN << [chunkVec |-> chunk.ID, fileMeta |-> k,
                   score |-> cosineSimilarity(q, vec[chunk.ID].Vector)] >> \o rest
          ELSE rest

\* the outer loop of Search over v.metadata in the order the map is ranged
RECURSIVE ScanFiles(_, _, _, _)
ScanFiles(md, vec, q, order) ==
  IF order = <<>> THEN <<>>
  ELSE ScanChunks(md, vec, q, Head(order), 1) \o ScanFiles(md, vec, q, Tail(order))

\* the scores slices the scan can build: Go ranges a map in any order
ScanOutcomes(md, vec, q) == {ScanFiles(md, vec, q, order) : order \in Perms(DOMAIN md)}

\* less(i, j) of the sort.Slice call
Less(a, b) == a.score > b.score

\* sort.Slice: a permutation ordered by Less, not guaranteed stable
SortSlice(s) ==
  {[i \in 1..Len(s) |-> s[p[i]]] : p \in
     {p \in Perms(1..Len(s)) :
        \A i, j \in 1..Len(s) : i < j => ~Less(s[p[j]], s[p[i]])}}

\* the limit after "if limit > len(scores)"
TopK(limit, n) == IF limit > n THEN n ELSE limit

\* the types.SearchResult of a scores entry
SearchResultOf(md, vec, e) ==
  [Path |-> md[e.fileMeta].FilePath, Line |-> vec[e.chunkVec].StartLine,
   Content |-> vec[e.chunkVec].Content, Distance |-> e.score]

\* a Search that drops the chunk vectors no document lists
SearchStoreEffectPruning ==
  /\ vectors' = [c \in {c \in DOMAIN vectors :
                          \E k \in DOMAIN metadata :
                            \E i \in 1..Len(metadata[k].Chunks) :
                              metadata[k].Chunks[i].ID = c} |-> vectors[c]]
  /\ UNCHANGED <<metadata, metadataNil, vectorsNil, nextID>>

\* the fields of the store Search assigns: none, it only reads under RLock
SearchStoreEffect == UNCHANGED storeVars

\* a Search that reports a store without scored chunks as an error
SearchReturnsNotFound(sorted) == IF sorted = <<>> THEN "failed" ELSE "done"

\* Search: "return searchResults, nil", whatever the scores slice holds
SearchReturns(sorted) == "done"

\* Search: EmbedText is called with the query
SearchCall(conc) ==
  /\ CanBegin(conc, SearchQuiet)
  /\ spc' = "embedding"
  /\ squery' = <<>>
  /\ slimit' = 0
  /\ scores' = <<>>
  /\ results' = <<>>
  /\ ResetIngest
  /\ ResetLoad
  /\ lastOp' = "Search"
  /\ UNCHANGED <<storeVars, disk, fileCount, everLoaded, lock>>

\* Search: EmbedText delivers the query embedding
SearchStart(conc) ==
  /\ spc = "embedding"
  /\ \E q \in (IF conc THEN QueryVecsConc ELSE QueryVecs) : squery' = q
  /\ spc' = "scan"
  /\ lastOp' = "Search"
  /\ UNCHANGED <<storeVars, disk, ingestVars, loadVars, slimit, scores, results,
                 fileCount, everLoaded, lock>>

\* Search: EmbedText fails
SearchEmbedFail ==
  /\ spc = "embedding"
  /\ spc' = "failed"
  /\ lastOp' = "Search"
  /\ UNCHANGED <<storeVars, disk, ingestVars, loadVars, squery, slimit, scores,
                 results, fileCount, everLoaded, lock>>

\* a Search that scans the maps without taking the read lock
SearchRLockSkipping ==
  /\ spc = "scan"
  /\ spc' = "locked"
  /\ lastOp' = "Search"
  /\ UNCHANGED <<storeVars, disk, ingestVars, loadVars, squery, slimit, scores,
                 results, fileCount, everLoaded, lock>>

\* Search: v.mutex.RLock()
SearchRLock ==
  /\ spc = "scan"
  /\ CanRLock
  /\ lock' = [lock EXCEPT !.r = @ \cup {"search"}]
  /\ spc' = "locked"
  /\ lastOp' = "Search"
  /\ UNCHANGED <<storeVars, disk, ingestVars, loadVars, squery, slimit, scores,
                 results, fileCount, everLoaded>>

\* Search: the chunks are scored, v.mutex.RUnlock(), the scores are sorted and
\* the top limit returned
SearchRank(conc) ==
  /\ spc = "locked"
  /\ \E limit \in (IF conc THEN LimitsConc ELSE Limits) :
       /\ limit >= 0
       /\ slimit' = limit
       /\ \E scanned \in ScanOutcomes(metadata, vectors, squery) :
            \E sorted \in SortSlice(scanned) :
              /\ scores' = sorted
              /\ results' = [i \in 1..TopK(limit, Len(sorted)) |->
                               SearchResultOf(metadata, vectors, sorted[i])]
              /\ spc' = SearchReturns(sorted)
  /\ lock' = [lock EXCEPT !.r = @ \ {"search"}]
  /\ lastOp' = "Search"
  /\ SearchStoreEffect
  /\ UNCHANGED <<disk, ingestVars, loadVars, squery, fileCount, everLoaded>>

\* Search: make([]types.SearchResult, 0, limit) panics for a negative limit
SearchPanic(conc) ==
  /\ spc = "locked"
  /\ \E limit \in (IF conc THEN LimitsConc ELSE Limits) :
       /\ limit < 0
       /\ slimit' = limit
       /\ \E scanned \in ScanOutcomes(metadata, vectors, squery) :
            \E sorted \in SortSlice(scanned) : scores' = sorted
  /\ lock' = [lock EXCEPT !.r = @ \ {"search"}]
  /\ spc' = "panic"
  /\ lastOp' = "Search"
  /\ SearchStoreEffect
  /\ UNCHANGED <<disk, ingestVars, loadVars, squery, results, fileCount, everLoaded>>

-----------------------------------------------------------------------------
(* The calls made one after another, and the calls of concurrent callers *)

Steps(conc) ==
  \/ CreateIndexStart(conc)
  \/ CreateIndexWalkFail(conc)
  \/ ProcessFileReadFail
  \/ ProcessFileRead(conc)
  \/ ProcessFileAllocLock
  \/ ProcessFileAllocID
  \/ ProcessFileChunk
  \/ ProcessFileEmbedFail
  \/ ProcessFileEmbed(conc)
  \/ ProcessFileInsertLock
  \/ ProcessFileInsert
  \/ ProcessFileInsertPanic
  \/ ProcessFilePublishLock
  \/ ProcessFilePublish
  \/ SaveIndexRLock
  \/ SaveIndexMarshal
  \/ SaveIndexWrite
  \/ SaveIndexWriteFail
  \/ LoadIndexNotFound(conc)
  \/ LoadIndexReadFail(conc)
  \/ LoadIndexFormat(conc)
  \/ LoadIndexRead(conc)
  \/ LoadIndexLock
  \/ LoadIndexOk
  \/ SearchCall(conc)
  \/ SearchStart(conc)
  \/ SearchEmbedFail
  \/ SearchRLock
  \/ SearchRank(conc)
  \/ SearchPanic(conc)

Next == Steps(FALSE)

Spec == Init /\ [][Next]_vars

NextConc == Steps(TRUE)

SpecConc == Init /\ [][NextConc]_vars

-----------------------------------------------------------------------------
(* splitIntoChunks applied on its own *)

\* a store on which nothing is called, and a content to be split
InitChunker ==
  /\ metadata = <<>>
  /\ vectors = <<>>
  /\ metadataNil = FALSE
  /\ vectorsNil = FALSE
  /\ nextID = 1
  /\ disk = NoFile
  /\ ipc = "split"
  /\ queue = <<>>
  /\ cur \in {[NoCur EXCEPT !.content = content] : content \in ChunkerContents}
  /\ spc = "idle"
  /\ squery = <<>>
  /\ slimit = 0
  /\ scores = <<>>
  /\ results = <<>>
  /\ lerr = "none"
  /\ lastOp = "NewVectorStore"
  /\ diskAtStart = disk
  /\ runDocs = {}
  /\ runErr = FALSE
  /\ fileCount = 0
  /\ everLoaded = FALSE
  /\ lock = Unlocked
  /\ lpc = "idle"
  /\ ldata = NoFile

\* chunks := v.splitIntoChunks(string(content))
SplitIntoChunksCall ==
  /\ ipc = "split"
  /\ cur' = [cur EXCEPT !.chunks = splitIntoChunks(cur.content)]
  /\ ipc' = "splitDone"
  /\ lastOp' = "splitIntoChunks"
  /\ UNCHANGED <<storeVars, disk, queue, searchVars, loadVars, diskAtStart,
                 runDocs, runErr, fileCount, everLoaded, lock>>

NextChunker == SplitIntoChunksCall

SpecChunker == InitChunker /\ [][NextChunker]_vars

-----------------------------------------------------------------------------
(* cosineSimilarity applied on its own *)

\* the vectors of dimension d with coordinates of magnitude up to MaxCoord
RECURSIVE VecsOfDim(_)
VecsOfDim(d) ==
  IF d = 0 THEN {<<>>}
  ELSE {Append(v, x) : v \in VecsOfDim(d - 1), x \in (0 - MaxCoord)..MaxCoord}

\* the vectors whose magnitude the integer Sqrt is exact for
CosineVecs ==
  {v \in UNION {VecsOfDim(d) : d \in 0..MaxDim} :
     \E r \in 0..SumTo(v, v, Len(v)) : r * r = SumTo(v, v, Len(v))}

\* the pairs of vectors whose score the integer quotient is exact for
CosinePairs ==
  {p \in CosineVecs \X CosineVecs :
     \/ Len(p[1]) # Len(p[2])
     \/ SumTo(p[1], p[1], Len(p[1])) = 0
     \/ SumTo(p[2], p[2], Len(p[2])) = 0
     \/ SumTo(p[1], p[2], Len(p[1]))
          % (Sqrt(SumTo(p[1], p[1], Len(p[1]))) * Sqrt(SumTo(p[2], p[2], Len(p[2])))) = 0}

\* a store on which nothing is called, a query embedding and a chunk vector
InitCosine ==
  /\ metadata = <<>>
  /\ vectors = <<>>
  /\ metadataNil = FALSE
  /\ vectorsNil = FALSE
  /\ nextID = 1
  /\ disk = NoFile
  /\ ipc = "idle"
  /\ queue = <<>>
  /\ spc = "score"
  /\ \E p \in CosinePairs :
       /\ squery = p[1]
       /\ cur = [NoCur EXCEPT !.embedding = p[2]]
  /\ slimit = 0
  /\ scores = <<>>
  /\ results = <<>>
  /\ lerr = "none"
  /\ lastOp = "NewVectorStore"
  /\ diskAtStart = disk
  /\ runDocs = {}
  /\ runErr = FALSE
  /\ fileCount = 0
  /\ everLoaded = FALSE
  /\ lock = Unlocked
  /\ lpc = "idle"
  /\ ldata = NoFile

\* score := cosineSimilarity(queryEmbedding, vec.Vector)
CosineSimilarityCall ==
  /\ spc = "score"
  /\ scores' = << [chunkVec |-> 0, fileMeta |-> 0,
                   score |-> cosineSimilarity(squery, cur.embedding)] >>
  /\ spc' = "scored"
  /\ lastOp' = "cosineSimilarity"
  /\ UNCHANGED <<storeVars, disk, ingestVars, loadVars, squery, slimit, results,
                 fileCount, everLoaded, lock>>

NextCosine == CosineSimilarityCall

SpecCosine == InitCosine /\ [][NextCosine]_vars

-----------------------------------------------------------------------------
(* State functions the properties use *)

\* the positions <<k, i>> of the chunk lists of all documents
ChunkEntries ==
  UNION {{<<k, i>> : i \in 1..Len(metadata[k].Chunks)} : k \in DOMAIN metadata}

\* the chunk ID recorded at a position of a chunk list
ListedID(e) == metadata[e[1]].Chunks[e[2]].ID

\* the IDs of the documents: the keys of the map and the ID fields
DocIDs == (DOMAIN metadata) \cup {metadata[k].ID : k \in DOMAIN metadata}

\* every ID present in the store
AllIDs == DocIDs \cup {ListedID(e) : e \in ChunkEntries} \cup (DOMAIN vectors)

\* number of stored chunks
TotalChunks == Cardinality(DOMAIN vectors)

\* every stored chunk is in the chunk list of a document of the store
NoOrphans == Cardinality(ChunkEntries) = TotalChunks

\* the keys of the stored chunks the returned results stand for
ReturnedChunks == {scores[i].chunkVec : i \in 1..Len(results)}

\* C1: after any sequence of ingests all document IDs and all chunk IDs of the
\* store are pairwise distinct: no two documents, no two chunk-list entries and
\* no document and chunk share an ID, counting the IDs recorded in the chunk
\* lists and the keys of the chunk-vector map.
C1_IDUniqueness ==
  (~everLoaded /\ IngestQuiet) =>
    /\ \A k1, k2 \in DOMAIN metadata : k1 # k2 => metadata[k1].ID # metadata[k2].ID
    /\ \A e1, e2 \in ChunkEntries : e1 # e2 => ListedID(e1) # ListedID(e2)
    /\ \A e \in ChunkEntries : ListedID(e) \notin DocIDs
    /\ \A c \in DOMAIN vectors : c \notin DocIDs

\* C2: saveIndex followed by LoadIndex of the written record yields documents,
\* chunks and vectors value-equal to those before the save: a load that
\* succeeds while metadata.json is the record saveIndex writes of the store
\* leaves both maps as they were.
C2_RoundTrip ==
  [][(disk = Marshal(metadata, metadataNil, vectors, vectorsNil)
        /\ lastOp' = "LoadIndex" /\ lerr' = "none")
       => (metadata' = metadata /\ vectors' = vectors)]_vars

\* C3: after every successful LoadIndex nextID is 1 + the maximum of all IDs
\* present in the restored store (document IDs, listed chunk IDs, keys of the
\* chunk-vector map), and 1 when the store is empty.
C3_NextIDAfterLoad ==
  (lastOp = "LoadIndex" /\ lerr = "none") => nextID = 1 + Max({0} \cup AllIDs)

\* C4: on a store whose chunks all belong to stored documents, for limit >= 1
\* Search returns at most min(limit, totalChunks) results,
\* in descending order of score, and every returned result scores at least as
\* high as every stored chunk that was not returned.
C4_RankedAndBounded ==
  (spc = "done" /\ NoOrphans /\ slimit >= 1) =>
    /\ Len(results) <= Min(slimit, TotalChunks)
    /\ \A i \in 1..(Len(results) - 1) : results[i].Distance >= results[i + 1].Distance
    /\ \A i \in 1..Len(results) :
         \A c \in (DOMAIN vectors) \ ReturnedChunks :
           results[i].Distance >= cosineSimilarity(squery, vectors[c].Vector)

\* C5: when the store holds n >= 1 chunks, each of a stored document, Search
\* with limit > n returns exactly n results.
C5_LimitAboveCount ==
  (spc = "done" /\ NoOrphans /\ TotalChunks >= 1 /\ slimit > TotalChunks)
    => Len(results) = TotalChunks

\* C6: among results of equal score the chunk with the smaller chunk ID comes
\* first, which makes the result sequence of a Search deterministic.
C6_TiesByChunkID ==
  spc = "done" =>
    \A i, j \in 1..Len(results) :
      (i < j /\ scores[i].score = scores[j].score)
        => scores[i].chunkVec < scores[j].chunkVec

\* C7: a Search with limit <= 0 completes without failure and returns what the
\* same Search returns with limit 10.
C7_DefaultLimit ==
  (spc \in {"done", "panic"} /\ slimit <= 0) =>
    /\ spc = "done"
    /\ results = [i \in 1..TopK(10, Len(scores)) |->
                    SearchResultOf(metadata, vectors, scores[i])]

\* the store holds exactly two ingested chunks, embedded as [1,0] and [0,1]
ScenarioEStore ==
  /\ ~everLoaded
  /\ NoOrphans
  /\ TotalChunks = 2
  /\ {vectors[c].Vector : c \in DOMAIN vectors} = {<<1, 0>>, <<0, 1>>}

\* C8: Scenario E: with two ingested chunks embedded as [1,0] and [0,1], Search
\* with query [1,0] and limit 2 returns two results, the [1,0] chunk first with
\* score 1 and the [0,1] chunk second with score 0.
C8_ScenarioE ==
  (spc = "done" /\ ScenarioEStore /\ squery = <<1, 0>> /\ slimit = 2) =>
    /\ Len(results) = 2
    /\ results[1].Distance = 1
    /\ results[2].Distance = 0
    /\ vectors[scores[1].chunkVec].Vector = <<1, 0>>
    /\ vectors[scores[2].chunkVec].Vector = <<0, 1>>

\* C9: Search never mutates state: every step of a Search call, whether it
\* returns results or fails, leaves the documents map, the chunk-vector map
\* and nextID as they were.
C9_SearchReadOnly ==
  [][lastOp' = "Search" =>
       /\ metadata' = metadata
       /\ vectors' = vectors
       /\ metadataNil' = metadataNil
       /\ vectorsNil' = vectorsNil
       /\ nextID' = nextID]_vars

\* C9 witness: a Search has returned results from a store that holds chunks
C9_Witness ==
  /\ spc = "done"
  /\ Len(results) >= 1
  /\ TotalChunks >= 1

\* C10: ingestion is fail-fast: once reading a file or embedding a chunk has
\* failed, the CreateIndex run has returned the error with the rest of its
\* files unprocessed, the documents it had published are in the store, and
\* metadata.json is what it was when the run began.
C10_FailFast ==
  runErr =>
    /\ ipc = "failed"
    /\ runDocs \subseteq DOMAIN metadata
    /\ disk = diskAtStart

\* C10 witness: a run has failed on its second file, after publishing the first
C10_Witness ==
  /\ runErr
  /\ ipc = "failed"
  /\ runDocs # {}

C12_SearchBeforeIndexing ==
  (~everLoaded /\ disk.kind = "none") => spc # "done"

\* the store holds no document and no chunk vector
EmptyStore == DOMAIN metadata = {} /\ DOMAIN vectors = {}

\* C13: Scenario C: on an empty store a Search with limit 5 returns an empty
\* result sequence and no error, for every query vector EmbedText delivers.
C13_ScenarioC ==
  (spc \in {"done", "failed", "panic"} /\ squery # <<>> /\ slimit = 5 /\ EmptyStore)
    => (spc = "done" /\ results = <<>>)

\* C13 witness: a Search with limit 5 has returned on an empty store
C13_Witness ==
  /\ spc = "done"
  /\ squery = <<1, 0>>
  /\ slimit = 5
  /\ EmptyStore

\* the record shape saveIndex writes: a JSON object with both maps
ExpectedShape(bytes) ==
  bytes.kind = "json" /\ ~bytes.metadataNull /\ ~bytes.vectorsNull

\* C14: a LoadIndex call that has returned has failed with the not-found
\* error when metadata.json does not exist, and has failed (with the format
\* error, unless the file could not even be read) when metadata.json does not
\* hold an object with a documents map and a chunk-vector map: a record of
\* another shape is never loaded successfully.
C14_LoadErrors ==
  (lastOp = "LoadIndex" /\ lpc = "idle") =>
    /\ disk.kind = "none" => lerr = "notfound"
    /\ (disk.kind # "none" /\ ~ExpectedShape(disk)) => lerr \in {"read", "format"}

\* line n lies in the range of one of the chunks
Covered(chunks, n) ==
  \E i \in 1..Len(chunks) : chunks[i].StartLine <= n /\ n <= chunks[i].EndLine

\* the line numbers of the lines that are not blank
NonBlankLines(lines) == {n \in 1..Len(lines) : TrimSpace(lines[n]) # <<>>}

\* the 0-based line indexes at which the windows of a content of L lines begin
WindowStarts(L) ==
  {i \in 0..(L - 1) :
     /\ i % (maxLinesPerChunk - overlapLines) = 0
     /\ (i = 0 \/ i + overlapLines < L)}

\* no window of the lines is blank after trimming
NoBlankWindow(lines) ==
  LET nonBlank == NonBlankLines(lines)
  IN \A i \in WindowStarts(Len(lines)) :
       \E n \in (i + 1)..Min(i + maxLinesPerChunk, Len(lines)) : n \in nonBlank

\* the number of lines of a text file: a final line feed ends the last line,
\* it does not begin another one
FileLineCount(content) ==
  IF content = <<>> THEN 0
  ELSE IF content[Len(content)] = NL THEN Len(Split(content)) - 1
  ELSE Len(Split(content))

\* C15 as claimed: for any content of L >= 1 lines the union of the
\* [StartLine, EndLine] ranges of the chunks splitIntoChunks emits contains
\* every line number in [1, L].
C15_Coverage ==
  ipc = "splitDone" =>
    \A n \in 1..FileLineCount(cur.content) : Covered(cur.chunks, n)

\* C15 amended: for any content of L >= 1 lines the union of the ranges of
\* the emitted chunks contains every line of [1, L] that is not blank, and
\* every line of [1, L] when no window of the content is blank.
C15_CoverageNonBlank ==
  ipc = "splitDone" =>
    LET lines == Split(cur.content)
        nonBlank == NonBlankLines(lines)
        all == NoBlankWindow(lines)
    IN \A n \in 1..FileLineCount(cur.content) :
         (n \in nonBlank \/ all) => Covered(cur.chunks, n)

\* C15 witness: a content of more than 50 lines was split into two or more
\* chunks and a blank window of it was dropped, leaving lines uncovered
C15_Witness ==
  /\ ipc = "splitDone"
  /\ FileLineCount(cur.content) > maxLinesPerChunk
  /\ Len(cur.chunks) >= 2
  /\ \E n \in 1..FileLineCount(cur.content) : ~Covered(cur.chunks, n)

\* C16: a file of L <= 50 lines, none of them blank, yields exactly one chunk,
\* with StartLine = 1 and EndLine = L; so a file of 10 non-blank lines yields
\* one chunk spanning lines 1-10.
C16_SmallFile ==
  (/\ ipc = "splitDone"
   /\ FileLineCount(cur.content) \in 1..maxLinesPerChunk
   /\ \A n \in 1..FileLineCount(cur.content) : n \in NonBlankLines(Split(cur.content)))
    => /\ Len(cur.chunks) = 1
       /\ cur.chunks[1].StartLine = 1
       /\ cur.chunks[1].EndLine = FileLineCount(cur.content)

\* C17: ID allocation is strictly increasing and never reuses an ID: in every
\* step in which processFile takes an ID from nextID, across all ingestions
\* and loads, the ID taken is greater than every ID present in the store
\* (document IDs, listed chunk IDs, keys of the chunk-vector map) and than the
\* ID of the document being built, and so differs from all of them.
C17_FreshIDs ==
  [][(lastOp' = "CreateIndex" /\ nextID' # nextID) =>
       \A id \in AllIDs \cup {cur.fileID} : nextID > id]_vars

\* the file processFile is working on has a document in the store already
PathPresent ==
  /\ cur.file # ""
  /\ \E k \in DOMAIN metadata : metadata[k].FilePath = cur.file

\* C18: re-ingestion is additive: while processFile works on a file whose
\* path is already in the store, every stored document and every stored chunk
\* vector stays in the store unchanged, and the document it adds gets a key
\* no stored document or chunk vector has.
C18_ReingestAdditive ==
  [][(lastOp' = "CreateIndex" /\ PathPresent) =>
       /\ \A k \in DOMAIN metadata :
            k \in DOMAIN metadata' /\ metadata'[k] = metadata[k]
       /\ \A c \in DOMAIN vectors :
            c \in DOMAIN vectors' /\ vectors'[c] = vectors[c]
       /\ metadata' # metadata =>
            cur.fileID \notin (DOMAIN metadata) \cup (DOMAIN vectors)]_vars

\* C19: the lock is never held across an embedding call: in every
\* interleaving, while EmbedText is executing for processFile or for Search
\* that caller holds neither the write side nor the read side of v.mutex, and
\* when processFile holds the write lock for an insert the vector of the
\* chunk has been computed.
C19_NoLockAcrossEmbed ==
  /\ ipc = "embedding" => (lock.w # "ingest" /\ "ingest" \notin lock.r)
  /\ spc = "embedding" => (lock.w # "search" /\ "search" \notin lock.r)
  /\ (ipc = "insertLocked" /\ lock.w = "ingest") => cur.embedding # <<>>

\* C19 witness: EmbedText is executing for processFile and for Search at the
\* same time, while LoadIndex holds the write lock
C19_Witness ==
  /\ ipc = "embedding"
  /\ spc = "embedding"
  /\ lock.w = "load"

\* the caller that takes a step of the named operation
Caller(op) ==
  IF op = "CreateIndex" THEN "ingest"
  ELSE IF op = "LoadIndex" THEN "load"
  ELSE "search"

RecordOwners(rec, c) ==
  {k \in DOMAIN rec.metadata :
     \E i \in 1..Len(rec.metadata[k].Chunks) :
       /\ rec.metadata[k].Chunks[i].StartLine = rec.vectors[c].StartLine
       /\ rec.metadata[k].Chunks[i].EndLine = rec.vectors[c].EndLine
       /\ rec.metadata[k].Chunks[i].Content = rec.vectors[c].Content}

\* C21: the record saveIndex writes is internally consistent: the bytes are
\* the documents and chunks of the store at the one instant they are
\* marshalled, every chunk in the record belongs to a document in the record
\* (also when other callers run concurrently), and the read lock is released
\* before the bytes are written to metadata.json.
C21_SaveConsistent ==
  [][/\ (ipc = "saveLocked" /\ ipc' = "write") =>
          /\ cur'.bytes = Marshal(metadata, metadataNil, vectors, vectorsNil)
          /\ \A c \in DOMAIN cur'.bytes.vectors : RecordOwners(cur'.bytes, c) # {}
     /\ (ipc = "write" /\ ipc' # "write") =>
          /\ "ingest" \notin lock.r
          /\ disk' \in {cur.bytes, disk, CorruptFile}]_vars

\* the windows the chunker algorithm emits for the first L of the lines: the
\* <<start, end>> line ranges of the windows that are not blank
EmittedWindows(lines, L) ==
  LET nonBlank == NonBlankLines(lines)
  IN {<<i + 1, Min(i + maxLinesPerChunk, L)>> : i \in
        {i \in WindowStarts(L) :
           \E n \in (i + 1)..Min(i + maxLinesPerChunk, L) : n \in nonBlank}}

\* C22: splitIntoChunks places windows at line 1 and then every 45 lines; the
\* window starting at line i covers [i, min(i + 49, L)], is emitted only if it
\* is not blank, and the last window is the first whose end reaches L, so the
\* chunks of a content of L lines are exactly these windows in ascending
\* order, consecutive windows share 5 lines, and a 120-line file yields chunks
\* starting at lines 1, 46 and 91, the last ending at line 120.
C22_Windows ==
  ipc = "splitDone" =>
    LET lines == Split(cur.content)
        L == FileLineCount(cur.content)
        chunks == cur.chunks
    IN /\ {<<chunks[k].StartLine, chunks[k].EndLine>> : k \in 1..Len(chunks)}
            = EmittedWindows(lines, L)
       /\ \A k \in 1..(Len(chunks) - 1) :
            /\ chunks[k].StartLine < chunks[k + 1].StartLine
            /\ chunks[k + 1].StartLine
                 = chunks[k].StartLine + (maxLinesPerChunk - overlapLines)
                 => chunks[k].EndLine - chunks[k + 1].StartLine + 1 = overlapLines
       /\ (L = 120 /\ (1..L) \subseteq NonBlankLines(lines)) =>
            /\ [k \in 1..Len(chunks) |-> chunks[k].StartLine] = <<1, 46, 91>>
            /\ chunks[Len(chunks)].EndLine = 120

\* the text holds nothing but white space
Blank(s) == \A i \in 1..Len(s) : IsSpace(s[i])

\* a chunk with a non-empty line range and a content that is not blank
ValidChunk(c) == 1 <= c.StartLine /\ c.StartLine <= c.EndLine /\ ~Blank(c.Content)

C24_EmptyFileSkipped ==
  [][(ipc = "files" /\ queue' # queue /\ lastOp' = "CreateIndex") =>
       /\ \A content \in FileContents : Blank(content) => ChunksOf[content] = <<>>
       /\ ipc' = "allocFile" => ~Blank(cur'.content)
       /\ ipc' # "allocFile" =>
            /\ ipc' = "files"
            /\ runErr' = runErr
            /\ cur' = NoCur
            /\ <<metadata, vectors, metadataNil, vectorsNil, nextID>>' = storeVars]_vars

\* C24 witness: a run over a.go and b.go has skipped a.go and goes on with
\* b.go, with no ID taken and nothing stored
C24_Witness ==
  /\ ipc = "files"
  /\ queue = <<"b.go">>
  /\ ~runErr
  /\ ~everLoaded
  /\ nextID = 1
  /\ EmptyStore

\* the dot product of two vectors of one length, and the squared magnitude
Dot(a, b) == SumTo(a, b, Len(a))
Norm2(a) == Dot(a, a)

\* C25: scoring is total: for every pair of vectors cosineSimilarity returns
\* a score, never an error or failure; the score is 0 whenever the two
\* vectors have different lengths or either has zero magnitude (zero-length
\* vectors included), and otherwise it is dot(q, v) / (|q| * |v|).
C25_CosineTotal ==
  /\ spc = "score" => ENABLED CosineSimilarityCall
  /\ spc = "scored" =>
       LET q == squery
           v == cur.embedding
           score == scores[1].score
       IN IF Len(q) # Len(v) \/ Norm2(q) = 0 \/ Norm2(v) = 0
          THEN score = 0
          ELSE score * (Sqrt(Norm2(q)) * Sqrt(Norm2(v))) = Dot(q, v)

\* C25 witness: two vectors of different lengths, neither of zero magnitude,
\* have been scored
C25_Witness ==
  /\ spc = "scored"
  /\ squery = <<1>>
  /\ cur.embedding = <<1, 0>>
  /\ scores[1].score = 0

\* C26: documents and chunks are never mutated or deleted after creation:
\* every step of an ingestion (its save included) and of a search leaves each
\* document and each chunk vector of the store present and unchanged in its
\* ID, path, content, line range, chunk list and vector; only LoadIndex
\* replaces the store's contents.
C26_Immutable ==
  [][lastOp' \in {"CreateIndex", "Search"} =>
       /\ \A k \in DOMAIN metadata :
            k \in DOMAIN metadata' /\ metadata'[k] = metadata[k]
       /\ \A c \in DOMAIN vectors :
            c \in DOMAIN vectors' /\ vectors'[c] = vectors[c]]_vars

\* C27: referential integrity between the two maps: in every state reached
\* by ingestion or load, each entry of a document's chunk list carries the ID
\* under which that chunk's vector is stored: the ID is a key of the
\* chunk-vector map and the entry under that key has the same StartLine,
\* EndLine and Content.
C27_ReferentialIntegrity ==
  \A e \in ChunkEntries :
    LET chunk == metadata[e[1]].Chunks[e[2]]
    IN /\ chunk.ID \in DOMAIN vectors
       /\ vectors[chunk.ID].StartLine = chunk.StartLine
       /\ vectors[chunk.ID].EndLine = chunk.EndLine
       /\ vectors[chunk.ID].Content = chunk.Content

\* C28: no orphan chunks: whenever a processFile or CreateIndex call has
\* returned, successfully or with an error, every entry of the chunk-vector
\* map belongs to a document of the documents map (a document lists an entry
\* with its line range and content); in particular a failed embedding of a
\* later chunk leaves no vector of the file's earlier chunks in the store.
C28_NoOrphanChunks ==
  (lastOp = "CreateIndex" /\ ipc \in {"files", "done", "failed"}) =>
    \A c \in DOMAIN vectors :
      RecordOwners([metadata |-> metadata, vectors |-> vectors], c) # {}

\* the chunk is one processFile embeds
NonBlankChunk(c) == ~Blank(c.Content)

\* C29: atomic publication of documents: a step of an ingestion changes the
\* documents map only when no chunk of the file is left to embed, and the
\* document it inserts lists all non-blank chunks of the file, each of which
\* was stored with its vector in the step that listed it; a Search that runs
\* interleaved with the ingestion returns results only for documents that
\* are in the documents map when it scans, with the chunks they list, so
\* never for the document whose chunk list is being built.
C29_AtomicPublication ==
  [][/\ (lastOp' = "CreateIndex" /\ metadata' # metadata) =>
          /\ cur.chunks = <<>>
          /\ cur.Chunks = SelectSeq(ChunksOf[cur.content], NonBlankChunk)
          /\ metadata' = MapSet(metadata, cur.fileID, metadata'[cur.fileID])
          /\ metadata'[cur.fileID].Chunks = cur.Chunks
     /\ (lastOp' = "CreateIndex" /\ cur'.Chunks # cur.Chunks /\ cur'.Chunks # <<>>) =>
          /\ cur.embedding # <<>>
          /\ \E c \in DOMAIN vectors' :
               /\ vectors'[c].Vector = cur.embedding
               /\ vectors'[c].Content = cur'.Chunks[Len(cur'.Chunks)].Content
               /\ vectors'[c].StartLine = cur'.Chunks[Len(cur'.Chunks)].StartLine
     /\ (lastOp' = "Search" /\ spc' = "done") =>
          \A i \in 1..Len(results') :
            /\ scores'[i].fileMeta \in DOMAIN metadata
            /\ results'[i].Path = metadata[scores'[i].fileMeta].FilePath
            /\ \E j \in 1..Len(metadata[scores'[i].fileMeta].Chunks) :
                 metadata[scores'[i].fileMeta].Chunks[j].ID = scores'[i].chunkVec]_vars

\* C29 witness: a Search that began after the ingestion did has returned a
\* result for a published document while processFile, with the first chunk of
\* its file stored, waits for the embedding of the second
C29_Witness ==
  /\ spc = "done"
  /\ Len(results) = 1
  /\ ipc = "embedding"
  /\ Len(cur.Chunks) = 1
  /\ cur.fileID \notin DOMAIN metadata
  /\ TotalChunks = 3

\* C30: after any LoadIndex that returns success, whatever record it
\* accepted (a record without the "metadata" or the "vectors" field and the
\* JSON value null included), the store remains usable: the documents map and
\* the chunk-vector map are initialised, a later Search completes without
\* failure (for a limit that is not negative) and a later processFile inserts
\* its document and chunks without failure.
C30_UsableAfterLoad ==
  everLoaded =>
    /\ (~metadataNil /\ ~vectorsNil)
    /\ spc = "panic" => slimit < 0
    /\ ipc # "panic"

====
